---- MODULE Spec2Model ----
(***************************************************************************)
(* ToothSeeker: the database construction routine of toothbase.py and the  *)
(* queries and dialogs of helper_functions.py and stackview.py that work   *)
(* on the 'images' table it creates.                                       *)
(*                                                                         *)
(* A table row is the tuple sqlite returns for SELECT *: position 1 is id, *)
(* position 2 is path, positions 3..33 are the columns model..uMgr and     *)
(* position 34 is faulty (Python's row[k] is position k+1 here).           *)
(* Parameter values are integers; paths are integers ordered as the path   *)
(* strings are ordered.                                                    *)
(***************************************************************************)
EXTENDS Integers, Sequences, FiniteSets, TLC

\* ------------------------------------------------------------- bounds ----
MaxValue == 2
MaxPath == 3
MaxImages == 2
MaxFolders == 2
MaxInput == 5
MaxGuiRows == 3

Values == 1..MaxValue
Paths == 1..MaxPath
IdStrs == {"00", "01"}

\* iter settings of the parameters_base.txt files
IterValues == {1, 2}
None == -1
NoneStr == "None"

\* ------------------------------------------------------------- schema ----
\* toothbase.init_db: the columns between path and faulty, in table order
ParamColumns ==
    <<"model", "viewthresh", "viewmode", "iter", "Egr", "Mgr", "Rep", "Swi",
      "Adh", "Act", "Inh", "Sec", "Da", "Di", "Ds", "Int", "Set", "Boy",
      "Dff", "Bgr", "Abi", "Pbi", "Lbi", "Bbi", "Rad", "Deg", "Dgr", "Ntr",
      "Bwi", "Ina", "uMgr">>

\* toothbase.init_db: all columns of CREATE TABLE, in order
all_column_names == <<"id", "path">> \o ParamColumns \o <<"faulty">>

NCols == Len(all_column_names)

\* list.index(name), 1-based
IndexOf(seq, name) == CHOOSE i \in 1..Len(seq) : seq[i] = name

ColIdx(name) == IndexOf(all_column_names, name)

Range(seq) == {seq[i] : i \in 1..Len(seq)}

\* the columns the duplicate queries partition / group by: all but id, path
DupColIdx == {i \in 1..NCols : all_column_names[i] \notin {"id", "path"}}

\* ------------------------------------------------- python dicts (ordered) ----
\* a dict is a sequence of <<key, value>> pairs with distinct keys
DictKeys(d) == [i \in 1..Len(d) |-> d[i][1]]
DictGet(d, k) == d[CHOOSE i \in 1..Len(d) : d[i][1] = k][2]

\* ------------------------------------------------------- combine_lists ----
\* one row of combine_lists: [path] + one value per base parameter + [0];
\* param_names[k] is the k-th key of base_param_dict, so
\* base_param_dict[param_names[k]] is the value of its k-th item
combine_row_base_only(path, id_str, base_param_dict, job_param_dict) ==
    LET vals == [k \in 1..Len(base_param_dict) |-> base_param_dict[k][2]]
    IN <<path>> \o vals \o <<0>>

combine_row(path, id_str, base_param_dict, job_param_dict) ==
    LET param_names == DictKeys(base_param_dict)
        vals == [k \in 1..Len(param_names) |->
                    IF param_names[k] \in DOMAIN job_param_dict[id_str]
                    THEN job_param_dict[id_str][param_names[k]]
                    ELSE base_param_dict[k][2]]
    IN <<path>> \o vals \o <<0>>

\* job_param_dict[id_str] raises KeyError for an image whose index key the
\* job file does not have (image_list is zip(image_path_list, image_id_str_list))
combine_lists_raises(image_list, job_param_dict) ==
    \E k \in 1..Len(image_list) : image_list[k][2] \notin DOMAIN job_param_dict

combine_lists(image_list, base_param_dict, job_param_dict) ==
    [k \in 1..Len(image_list) |->
        combine_row(image_list[k][1], image_list[k][2],
                    base_param_dict, job_param_dict)]

\* ------------------------------------------------ the images table ----
Ids(t) == {r[1] : r \in t}
PathsOf(t) == {r[2] : r \in t}
SetMin(S) == CHOOSE x \in S : \A y \in S : x <= y
SetMax(S) == CHOOSE x \in S : \A y \in S : y <= x

\* INTEGER PRIMARY KEY given NULL: one more than the largest id in use
NextId(t) == IF t = {} THEN 1 ELSE SetMax(Ids(t)) + 1

insert_never_violates(t, row) == FALSE

\* path TEXT UNIQUE: sqlite raises IntegrityError and the table is unchanged
insert_violates(t, row) == row[1] \in PathsOf(t)

\* insert_data_to_table, one INSERT: the row gets the NULL id in front
insert_row(t, row) ==
    IF insert_violates(t, row) THEN t ELSE t \cup {<<NextId(t)>> \o row}

\* rows r and s agree on every column other than id and path
SameParams(r, s) == \A i \in DupColIdx : r[i] = s[i]

Partition(t, r) == {s \in t : SameParams(r, s)}

\* MIN(id) OVER (PARTITION BY model, ..., faulty)
min_id(t, r) == SetMin({s[1] : s \in Partition(t, r)})

\* MIN(path) OVER (PARTITION BY model, ..., faulty)
min_path(t, r) == SetMin({s[2] : s \in Partition(t, r)})

\* the SELECT of remove_duplicate_images: (min_id, id, path, min_path) of
\* every row with id != min_id
duplicates_rows(t) ==
    {<<min_id(t, r), r[1], r[2], min_path(t, r)>> : r \in {x \in t : x[1] # min_id(t, x)}}

\* ORDER BY t1.min_id: any order of the result that is sorted by min_id
duplicates_orders(t) ==
    LET D == duplicates_rows(t)
        n == Cardinality(D)
    IN {s \in [1..n -> D] :
           /\ \A i, j \in 1..n : i # j => s[i] # s[j]
           /\ \A i, j \in 1..n : i < j => s[i][1] <= s[j][1]}

audit_rows_preserved_last(duplicates, idx) ==
    LET dup == duplicates[idx]
        removed == <<dup[1], dup[2], dup[3], "removed">>
    IN IF idx = 1 \/ dup[1] # duplicates[idx - 1][1]
       THEN << removed, <<dup[1], dup[1], dup[4], "preserved">> >>
       ELSE << removed >>

\* the rows the csv.writer loop writes for duplicates[idx]
audit_rows_for(duplicates, idx) ==
    LET dup == duplicates[idx]
        removed == <<dup[1], dup[2], dup[3], "removed">>
    IN IF idx = 1 \/ dup[1] # duplicates[idx - 1][1]
       THEN << <<dup[1], dup[1], dup[4], "preserved">>, removed >>
       ELSE << removed >>

RECURSIVE audit_from(_, _)
audit_from(duplicates, idx) ==
    IF idx > Len(duplicates) THEN <<>>
    ELSE audit_rows_for(duplicates, idx) \o audit_from(duplicates, idx + 1)

\* the audit CSV without its header row
audit_csv(duplicates) == audit_from(duplicates, 1)

\* GROUP BY model, ..., faulty HAVING COUNT(*) > 1: the groups' rows
having_count_gt_1(t) == {r \in t : Cardinality(Partition(t, r)) > 1}

group_max_ids(t) == {SetMax({s[1] : s \in Partition(t, r)}) : r \in having_count_gt_1(t)}

\* SELECT MIN(id) ... GROUP BY ... HAVING COUNT(*) > 1
group_min_ids(t) == {min_id(t, r) : r \in having_count_gt_1(t)}

\* the DELETE of remove_duplicate_images
delete_duplicates(t) ==
    {r \in t : ~(r \in having_count_gt_1(t) /\ r[1] \notin group_min_ids(t))}

\* -------------------------------------------------------------- state ----
VARIABLES
    pc,           \* position inside construct_database, "idle" outside it
    db_exists,    \* the database file exists
    table,        \* rows of the images table, as the connection sees them
    n_folders,    \* folders processed by process_all_folders
    pending,      \* complete_list rows not yet inserted
    csv,          \* rows of the CSV file written by create_csv
    audit,        \* rows of the removed-duplicates CSV, header excluded
    exit_status   \* how the last construct_database call ended

dbvars == <<pc, db_exists, table, n_folders, pending, csv, audit, exit_status>>

VARIABLES
    dialog,       \* the modal dialog that is open, "none" if none
    input_box,    \* text of ask_row_id's input box as a number, None if empty
    row_id_ref,   \* row_id_ref[0] of ask_row_id
    buttons,      \* ids of the radio buttons of the pick-axis window
    clicked,      \* id of the radio button clicked last, None if none
    picked,       \* value show_pick_axis_param_option_window returned
    printed,      \* last message printed by a dialog handler: <<kind, number in it>>
    ret,          \* arguments and result of the last query call
    combine_in,   \* arguments of a combine_lists call
    combine_out   \* what that call returned

guivars == <<dialog, input_box, row_id_ref, buttons, clicked, picked, printed, ret>>

combinevars == <<combine_in, combine_out>>

VARIABLES
    tab_widget,   \* MainWindow.tab_widget: the tabs, leftmost first
    db_path,      \* MainWindow.db_path
    db_files,     \* names of the database files present in the project folder
    last_call     \* what the last menu handler ended up calling

tabvars == <<tab_widget, db_path, db_files, last_call>>

VARIABLES
    job_file,     \* lines of job_parameters.txt
    job_dict      \* what read_job_param returned for it, NoJobDict before

jobvars == <<job_file, job_dict>>

NoPrint == <<"none", None>>

NoRet == [op |-> "none", row_id |-> None, param |-> NoneStr, rows |-> {}, lines |-> <<>>]

\* ------------------------------------------------- folder inputs ----
\* parameters_base.txt: every table parameter in table order; the sweep
\* varies iter
base_param_dict_of(iter_value) ==
    [k \in 1..Len(ParamColumns) |->
        <<ParamColumns[k], IF ParamColumns[k] = "iter" THEN iter_value ELSE 1>>]

\* parameters a job section may override
JobParams == {"uMgr"}

\* possible sections of job_parameters.txt
JobSections == UNION {[S -> Values] : S \in SUBSET JobParams}

\* possible results of read_job_param
JobParamDicts == UNION {[K -> JobSections] : K \in SUBSET IdStrs}

\* process_folder: re.findall('ToothMaker_(.*)_', path)[0], the index key in
\* the screenshot's file name
image_id_str(path) == IF path % 2 = 1 THEN "00" ELSE "01"

\* zip(image_path_list, image_id_str_list) of one folder: os.listdir names
\* each screenshot once
ImageLists ==
    {[k \in 1..Len(path_list) |-> <<path_list[k], image_id_str(path_list[k])>>] :
        path_list \in {l \in UNION {[1..n -> Paths] : n \in 1..MaxImages} :
                          \A i, j \in 1..Len(l) : i # j => l[i] # l[j]}}

\* no construct_database call is running and no modal dialog is open
GuiIdle ==
    /\ pc = "idle"
    /\ dialog = "none"
    /\ input_box = None
    /\ row_id_ref = None
    /\ buttons = {}
    /\ clicked = None
    /\ picked = NoneStr
    /\ printed = NoPrint
    /\ ret.op = "none"

\* ---------------------------------------------- construct_database ----
\* init_db: an existing database file ends the program with sys.exit
init_db_no_exists_check ==
    /\ db_exists' = TRUE
    /\ table' = {}
    /\ pc' = "process_all_folders"
    /\ n_folders' = 0
    /\ exit_status' = "running"
    /\ UNCHANGED <<pending, csv, audit>>

init_db ==
    IF db_exists
    THEN /\ exit_status' = "sys.exit"
         /\ UNCHANGED <<pc, db_exists, table, n_folders, pending, csv, audit>>
    ELSE /\ db_exists' = TRUE
         /\ table' = {}
         /\ pc' = "process_all_folders"
         /\ n_folders' = 0
         /\ exit_status' = "running"
         /\ UNCHANGED <<pending, csv, audit>>

construct_database ==
    /\ GuiIdle
    /\ init_db
    /\ UNCHANGED <<guivars, combinevars, tabvars, jobvars>>

\* process_folder up to combine_lists; KeyError ends the program and the
\* open transaction is rolled back
process_folder ==
    /\ UNCHANGED <<guivars, combinevars, tabvars, jobvars>>
    /\ pc = "process_all_folders"
    /\ n_folders < MaxFolders
    /\ \E image_list \in ImageLists, job_param_dict \in JobParamDicts :
          LET complete_list == combine_lists(image_list, base_param_dict_of(1), job_param_dict)
          IN IF combine_lists_raises(image_list, job_param_dict)
             THEN /\ pc' = "idle"
                  /\ exit_status' = "KeyError"
                  /\ table' = {}
                  /\ UNCHANGED <<pending, n_folders>>
             ELSE /\ pc' = "insert_data_to_table"
                  /\ pending' = complete_list
                  /\ n_folders' = n_folders + 1
                  /\ UNCHANGED <<table, exit_status>>
    /\ UNCHANGED <<db_exists, csv, audit>>

\* insert_data_to_table: one pass of the for loop
insert_data_to_table ==
    /\ UNCHANGED <<guivars, combinevars, tabvars, jobvars>>
    /\ pc = "insert_data_to_table"
    /\ IF pending = <<>>
       THEN /\ pc' = "process_all_folders"
            /\ UNCHANGED <<table, pending, exit_status>>
       ELSE IF insert_violates(table, Head(pending))
       THEN /\ pc' = "IntegrityError"
            /\ table' = insert_row(table, Head(pending))
            /\ UNCHANGED <<pending, exit_status>>
       ELSE /\ table' = insert_row(table, Head(pending))
            /\ pending' = Tail(pending)
            /\ UNCHANGED <<pc, exit_status>>
    /\ UNCHANGED <<db_exists, n_folders, csv, audit>>

\* the IntegrityError leaves construct_database: nothing was committed
integrity_error_exit ==
    /\ UNCHANGED <<guivars, combinevars, tabvars, jobvars>>
    /\ pc = "IntegrityError"
    /\ pc' = "idle"
    /\ exit_status' = "IntegrityError"
    /\ table' = {}
    /\ pending' = <<>>
    /\ UNCHANGED <<db_exists, n_folders, csv, audit>>

\* process_all_folders has no folder left
process_all_folders_done ==
    /\ UNCHANGED <<guivars, combinevars, tabvars, jobvars>>
    /\ pc = "process_all_folders"
    /\ pc' = "create_csv"
    /\ n_folders' = 0
    /\ UNCHANGED <<db_exists, table, pending, csv, audit, exit_status>>

\* create_csv, then conn.commit() and conn.close()
create_csv ==
    /\ UNCHANGED <<guivars, combinevars, tabvars, jobvars>>
    /\ pc = "create_csv"
    /\ csv' = table
    /\ pc' = "remove_duplicate_images"
    /\ UNCHANGED <<db_exists, table, n_folders, pending, audit, exit_status>>

\* remove_duplicate_images, then construct_database returns
remove_duplicate_images ==
    /\ UNCHANGED <<guivars, combinevars, tabvars, jobvars>>
    /\ pc = "remove_duplicate_images"
    /\ \E duplicates \in duplicates_orders(table) :
          audit' = audit_csv(duplicates)
    /\ table' = delete_duplicates(table)
    /\ pc' = "idle"
    /\ exit_status' = "returned"
    /\ UNCHANGED <<db_exists, n_folders, pending, csv>>

\* ------------------------------------------------ helper_functions ----
\* check_database_max_row: None without a database file, else COUNT(*)
check_database_max_row == IF db_exists THEN Cardinality(table) ELSE None

\* row_exists_in_database: SELECT 1 FROM images WHERE rowid=?
row_exists_in_database(row_id) == row_id \in Ids(table)

\* export_row_to_file: the keys of params, in order; the k-th is read from
\* row[k+1] (position k+2)
export_param_names ==
    <<"model", "viewthresh", "viewmode", "iter", "Egr", "Mgr", "Rep", "Swi",
      "Adh", "Act", "Inh", "Sec", "Da", "Di", "Ds", "Int", "Set", "Boy",
      "Dff", "Bgr", "Abi", "Pbi", "Lbi", "Bbi", "Rad", "Deg", "Dgr", "Ntr",
      "Bwi", "Ina">>

export_params(row) ==
    [k \in 1..Len(export_param_names) |-> <<export_param_names[k], row[k + 2]>>]

\* the 'name==value' lines export_row_to_file writes, in file order
export_lines(row) ==
    LET params == export_params(row)
        head == {"model", "viewthresh", "viewmode", "iter"}
    IN << <<"model", DictGet(params, "model")>>,
          <<"viewthresh", DictGet(params, "viewthresh")>>,
          <<"viewmode", DictGet(params, "viewmode")>>,
          <<"iter", DictGet(params, "iter")>> >>
       \o SelectSeq(params, LAMBDA kv : kv[1] \notin head)

\* ------------------------------------------------------- stackview ----
\* create_param_name_dict: the keys, in order
param_name_dict_keys ==
    <<"iter", "Egr", "Mgr", "Rep", "Swi", "Adh", "Act", "Inh", "Sec", "Da",
      "Di", "Ds", "Int", "Set", "Boy", "Dff", "Bgr", "Abi", "Pbi", "Lbi",
      "Bbi", "Rad", "Deg", "Dgr", "Ntr", "Bwi", "Ina", "uMgr">>

\* create_param_info_per_slider_index
all_param_names ==
    <<"iter", "Egr", "Mgr", "Rep", "Swi", "Adh", "Act", "Inh", "Sec", "Da",
      "Di", "Ds", "Int", "Set", "Boy", "Dff", "Bgr", "Abi", "Pbi", "Lbi",
      "Bbi", "Rad", "Deg", "Dgr", "Ntr", "Bwi", "Ina", "uMgr">>

\* QDialog.Rejected
Rejected == 0

\* SELECT * FROM images WHERE id=?
fetch_row(t, row_id) == CHOOSE r \in t : r[1] = row_id

find_rows_param_only(t, row_id, chosen_param) ==
    LET base_row == fetch_row(t, row_id)
        chosen_idx == ColIdx(chosen_param)
    IN {r \in t : r[1] # row_id /\ r[chosen_idx] # base_row[chosen_idx]}

\* find_rows_differing_by_param: the rows of the second SELECT
find_rows_differing_by_param(t, row_id, chosen_param) ==
    LET base_row == fetch_row(t, row_id)
        column_indices == {i \in 1..NCols :
                              all_column_names[i] \notin {"id", "path", chosen_param}}
        chosen_idx == ColIdx(chosen_param)
    IN {r \in t : /\ r[1] # row_id
                  /\ r[chosen_idx] # base_row[chosen_idx]
                  /\ \A i \in column_indices : r[i] = base_row[i]}

\* create_param_info_per_slider_index for one image: neighbor count per
\* entry of all_param_names
neighbor_count_per_param(t, row_id) ==
    [j \in 1..Len(all_param_names) |->
        Cardinality(find_rows_differing_by_param(t, row_id, all_param_names[j]))]

\* show_pick_axis_param_option_window: ids (enumerate index i) of the radio
\* buttons created
param_buttons(t, row_id, old_chosen_param) ==
    LET nb_count == neighbor_count_per_param(t, row_id)
    IN {i \in 0..(Len(param_name_dict_keys) - 1) :
           /\ i + 1 <= Len(nb_count)
           /\ nb_count[i + 1] # 0
           /\ param_name_dict_keys[i + 1] # old_chosen_param}

\* show_pick_axis_param_option_window: the value returned for exec_()'s result
picked_param_of(result) ==
    IF result = Rejected THEN NoneStr
    ELSE IF result >= 0 /\ result < Len(param_name_dict_keys)
         THEN param_name_dict_keys[result + 1]
         ELSE NoneStr

\* the locals of a finished dialog or call are gone when the next one starts
GuiFresh ==
    /\ input_box' = None
    /\ row_id_ref' = None
    /\ clicked' = None
    /\ picked' = NoneStr

\* ask_row_id up to input_window.exec_()
ask_row_id ==
    /\ GuiIdle
    /\ dialog' = "ask_row_id"
    /\ GuiFresh
    /\ buttons' = {}
    /\ printed' = NoPrint
    /\ ret' = NoRet
    /\ UNCHANGED <<dbvars, combinevars, tabvars, jobvars>>

\* the user edits the input box; the validator accepts digits only
edit_input_box ==
    /\ dialog = "ask_row_id"
    /\ \E value \in 0..MaxInput : input_box' = value
    /\ UNCHANGED <<dialog, row_id_ref, buttons, clicked, picked, printed, ret>>
    /\ UNCHANGED <<dbvars, combinevars, tabvars, jobvars>>

\* save_input_value up to the while loop (OK is enabled for acceptable input)
save_input_value ==
    /\ dialog = "ask_row_id"
    /\ input_box # None
    /\ LET max_row == check_database_max_row
           value == input_box
       IN IF max_row = None \/ max_row = 0
          THEN /\ printed' = <<"no max row", None>>
               /\ dialog' = "none"
               /\ UNCHANGED row_id_ref
          ELSE IF value = 0
          THEN /\ dialog' = "random_loop"
               /\ UNCHANGED <<row_id_ref, printed>>
          ELSE IF value > max_row
          THEN /\ printed' = <<"larger than max row", value>>
               /\ UNCHANGED <<row_id_ref, dialog>>
          ELSE IF row_exists_in_database(value)
          THEN /\ row_id_ref' = value
               /\ printed' = <<"given", value>>
               /\ dialog' = "none"
          ELSE /\ printed' = <<"not found", value>>
               /\ UNCHANGED <<row_id_ref, dialog>>
    /\ UNCHANGED <<input_box, buttons, clicked, picked, ret>>
    /\ UNCHANGED <<dbvars, combinevars, tabvars, jobvars>>

\* one pass of save_input_value's while True loop; numpy's randint(1, max_row)
\* draws from 1..max_row-1 and raises ValueError when that range is empty
save_input_value_random ==
    /\ dialog = "random_loop"
    /\ LET max_row == check_database_max_row
       IN IF max_row <= 1
          THEN /\ dialog' = "ValueError"
               /\ printed' = <<"ValueError", None>>
               /\ UNCHANGED row_id_ref
          ELSE \E random_id \in 1..(max_row - 1) :
                  IF row_exists_in_database(random_id)
                  THEN /\ row_id_ref' = random_id
                       /\ printed' = <<"randomized", random_id>>
                       /\ dialog' = "none"
                  ELSE UNCHANGED <<row_id_ref, printed, dialog>>
    /\ UNCHANGED <<input_box, buttons, clicked, picked, ret>>
    /\ UNCHANGED <<dbvars, combinevars, tabvars, jobvars>>

\* StackView.find_rows_differing_by_param for an existing base row
find_rows ==
    /\ GuiIdle
    /\ \E row_id \in Ids(table), chosen_param \in Range(all_column_names) \ {"id", "path"} :
          /\ GuiFresh
          /\ buttons' = {}
          /\ printed' = NoPrint
          /\ ret' = [NoRet EXCEPT !.op = "find_rows_differing_by_param",
                                  !.row_id = row_id,
                                  !.param = chosen_param,
                                  !.rows = find_rows_differing_by_param(table, row_id, chosen_param)]
    /\ UNCHANGED dialog
    /\ UNCHANGED <<dbvars, combinevars, tabvars, jobvars>>

\* stack_images: one (image, id, value) tuple per row of [base_row] + rows,
\* sorted by the value with Python's stable list.sort, then split into the
\* three returned arrays; an image is known by the path it is read from
SeqsOf(S) ==
    {q \in [1..Cardinality(S) -> S] : \A i, j \in DOMAIN q : q[i] = q[j] => i = j}

insert_sorted(sorted, x) ==
    LET n == Cardinality({k \in 1..Len(sorted) : sorted[k][3] <= x[3]})
    IN SubSeq(sorted, 1, n) \o <<x>> \o SubSeq(sorted, n + 1, Len(sorted))

RECURSIVE sort_by_value(_)
sort_by_value(images) ==
    IF images = <<>>
    THEN <<>>
    ELSE insert_sorted(sort_by_value(SubSeq(images, 1, Len(images) - 1)),
                       images[Len(images)])

stack_images_values_sorted_alone(base_row, rows, chosen_idx) ==
    LET all_rows == <<base_row>> \o rows
        images == [k \in 1..Len(all_rows) |->
                      <<all_rows[k][2], all_rows[k][1], all_rows[k][chosen_idx]>>]
        sorted == sort_by_value(images)
    IN <<[k \in 1..Len(images) |-> images[k][1]],
         [k \in 1..Len(images) |-> images[k][2]],
         [k \in 1..Len(sorted) |-> sorted[k][3]]>>

stack_images(base_row, rows, chosen_idx) ==
    LET all_rows == <<base_row>> \o rows
        images == [k \in 1..Len(all_rows) |->
                      <<all_rows[k][2], all_rows[k][1], all_rows[k][chosen_idx]>>]
        sorted == sort_by_value(images)
    IN <<[k \in 1..Len(sorted) |-> sorted[k][1]],
         [k \in 1..Len(sorted) |-> sorted[k][2]],
         [k \in 1..Len(sorted) |-> sorted[k][3]]>>

\* StackView.init_ui up to stack_images: the row and the parameter exist and
\* the row has neighbors; fetchall returns the neighbors in some order
init_ui ==
    /\ GuiIdle
    /\ \E row_id \in Ids(table), chosen_param \in Range(all_column_names) \ {"id", "path"} :
          LET rows == find_rows_differing_by_param(table, row_id, chosen_param)
          IN /\ rows # {}
             /\ \E row_list \in SeqsOf(rows) :
                   /\ GuiFresh
                   /\ buttons' = {}
                   /\ printed' = NoPrint
                   /\ ret' = [NoRet EXCEPT
                                 !.op = "stack_images",
                                 !.row_id = row_id,
                                 !.param = chosen_param,
                                 !.rows = rows,
                                 !.lines = stack_images(fetch_row(table, row_id), row_list,
                                                        ColIdx(chosen_param))]
    /\ UNCHANGED dialog
    /\ UNCHANGED <<dbvars, combinevars, tabvars, jobvars>>

\* get_rowid_from_path: SELECT id FROM images WHERE path = ?, None when
\* fetchone finds nothing
get_rowid_first_row(t, image_path) ==
    IF t # {} THEN SetMin(Ids(t)) ELSE None

get_rowid_from_path(t, image_path) ==
    IF \E r \in t : r[2] = image_path
    THEN (CHOOSE r \in t : r[2] = image_path)[1]
    ELSE None

\* the paths a dropped file can be looked up by: stored ones and one more
DropPaths == 1..(MaxGuiRows + 1)

\* process_image: the dropped file's relative path is looked up and the
\* signal is emitted for a found id, else a message is printed
process_image ==
    /\ GuiIdle
    /\ db_exists
    /\ \E relative_path_with_double_backslashes \in DropPaths :
          LET given_row_id == get_rowid_from_path(table, relative_path_with_double_backslashes)
          IN /\ GuiFresh
             /\ buttons' = {}
             /\ ret' = [NoRet EXCEPT !.op = "process_image",
                                     !.row_id = given_row_id,
                                     !.lines = <<relative_path_with_double_backslashes>>]
             /\ IF given_row_id # None /\ given_row_id # 0
                THEN printed' = <<"new_view_tab_signal", given_row_id>>
                ELSE printed' = <<"not in database", None>>
    /\ UNCHANGED dialog
    /\ UNCHANGED <<dbvars, combinevars, tabvars, jobvars>>

\* export_row_to_file
export_row_to_file ==
    /\ GuiIdle
    /\ db_exists
    /\ \E row_id \in 1..MaxInput :
          /\ GuiFresh
          /\ buttons' = {}
          /\ printed' = NoPrint
          /\ IF row_id \in Ids(table)
             THEN ret' = [NoRet EXCEPT !.op = "export_row_to_file",
                                       !.row_id = row_id,
                                       !.lines = export_lines(fetch_row(table, row_id))]
             ELSE ret' = [NoRet EXCEPT !.op = "export_row_to_file: no row",
                                       !.row_id = row_id]
    /\ UNCHANGED dialog
    /\ UNCHANGED <<dbvars, combinevars, tabvars, jobvars>>

\* show_pick_axis_param_option_window up to exec_()
show_pick_axis_param_option_window ==
    /\ GuiIdle
    /\ \E row_id \in Ids(table), old_chosen_param \in {NoneStr} \cup Range(param_name_dict_keys) :
          LET shown == param_buttons(table, row_id, old_chosen_param)
          IN /\ GuiFresh
             /\ buttons' = shown
             /\ ret' = NoRet
             /\ IF shown = {}
                THEN /\ printed' = <<"no options", None>>
                     /\ dialog' = "none"
                ELSE /\ printed' = NoPrint
                     /\ dialog' = "pick_axis"
    /\ UNCHANGED <<dbvars, combinevars, tabvars, jobvars>>

\* a radio button is clicked: buttonClicked -> done(param_id), exec_() returns
click_param_button ==
    /\ dialog = "pick_axis"
    /\ \E param_id \in buttons :
          /\ clicked' = param_id
          /\ picked' = picked_param_of(param_id)
    /\ dialog' = "none"
    /\ UNCHANGED <<input_box, row_id_ref, buttons, printed, ret>>
    /\ UNCHANGED <<dbvars, combinevars, tabvars, jobvars>>

\* the window is closed without a click: exec_() returns Rejected
close_pick_window ==
    /\ dialog = "pick_axis"
    /\ picked' = picked_param_of(Rejected)
    /\ printed' = <<"closed without selecting", None>>
    /\ dialog' = "none"
    /\ UNCHANGED <<input_box, row_id_ref, buttons, clicked, ret>>
    /\ UNCHANGED <<dbvars, combinevars, tabvars, jobvars>>

\* the dialog or call has returned to the event loop: its locals are gone
return_to_event_loop ==
    /\ pc = "idle"
    /\ dialog = "none"
    /\ ~GuiIdle
    /\ GuiFresh
    /\ buttons' = {}
    /\ printed' = NoPrint
    /\ ret' = NoRet
    /\ UNCHANGED dialog
    /\ UNCHANGED <<dbvars, combinevars, tabvars, jobvars>>

\* --------------------------------------------------- specifications ----
vars == <<dbvars, guivars, combinevars, tabvars, jobvars>>

NoCombineOut == [status |-> "none", rows |-> <<>>]

GuiInit ==
    /\ dialog = "none"
    /\ input_box = None
    /\ row_id_ref = None
    /\ buttons = {}
    /\ clicked = None
    /\ picked = NoneStr
    /\ printed = NoPrint
    /\ ret = NoRet

CombineIdle ==
    /\ combine_in = [image_list |-> <<>>, base_param_dict |-> <<>>, job_param_dict |-> <<>>]
    /\ combine_out = NoCombineOut

NoJobDict == [status |-> "none", dict |-> <<>>]

\* no main window and no job file are part of the run
TabsIdle ==
    /\ tab_widget = <<>>
    /\ db_path = NoneStr
    /\ db_files = {}
    /\ last_call = "none"

JobIdle ==
    /\ job_file = <<>>
    /\ job_dict = NoJobDict

\* construct_database, started with no database file
Init ==
    /\ pc = "idle"
    /\ db_exists = FALSE
    /\ table = {}
    /\ n_folders = 0
    /\ pending = <<>>
    /\ csv = {}
    /\ audit = <<>>
    /\ exit_status = "none"
    /\ GuiInit
    /\ CombineIdle
    /\ TabsIdle
    /\ JobIdle

Next ==
    \/ construct_database
    \/ process_folder
    \/ insert_data_to_table
    \/ integrity_error_exit
    \/ process_all_folders_done
    \/ create_csv
    \/ remove_duplicate_images

Spec == Init /\ [][Next]_vars

\* the dialogs and queries, on a database construct_database has returned
\* (or on none): rows combine_lists can build, inserted one by one, then
\* remove_duplicate_images
GuiRowInputs(path) ==
    {combine_row(path, "00", base_param_dict_of(iter_value), [k \in {"00"} |-> section]) :
        iter_value \in IterValues, section \in JobSections}

RECURSIVE insert_all(_, _)
insert_all(t, rows) ==
    IF rows = <<>> THEN t ELSE insert_all(insert_row(t, Head(rows)), Tail(rows))

\* the k-th inserted row has the k-th path
GuiInsertSeqs ==
    {rows \in UNION {[1..n -> UNION {GuiRowInputs(path) : path \in 1..MaxGuiRows}] : n \in 0..MaxGuiRows} :
        \A k \in 1..Len(rows) : rows[k][1] = k}

InitGui ==
    /\ pc = "idle"
    /\ n_folders = 0
    /\ pending = <<>>
    /\ GuiInit
    /\ CombineIdle
    /\ TabsIdle
    /\ JobIdle
    /\ \/ /\ db_exists = FALSE
          /\ table = {}
          /\ csv = {}
          /\ audit = <<>>
          /\ exit_status = "none"
       \/ /\ db_exists = TRUE
          /\ exit_status = "returned"
          /\ \E rows \in GuiInsertSeqs :
                LET inserted == insert_all({}, rows)
                IN /\ csv = inserted
                   /\ table = delete_duplicates(inserted)
                   /\ \E duplicates \in duplicates_orders(inserted) :
                         audit = audit_csv(duplicates)

NextGui ==
    \/ ask_row_id
    \/ edit_input_box
    \/ save_input_value
    \/ save_input_value_random
    \/ find_rows
    \/ init_ui
    \/ process_image
    \/ export_row_to_file
    \/ show_pick_axis_param_option_window
    \/ click_param_button
    \/ close_pick_window
    \/ return_to_event_loop

SpecGui == InitGui /\ [][NextGui]_vars

\* combine_lists on its own: parameters_base.txt files with the parameters
\* of CombineNames in any order
CombineNames == {"iter", "uMgr"}

BaseParamDicts ==
    {d \in UNION {[1..n -> CombineNames \X Values] : n \in 1..Cardinality(CombineNames)} :
        \A i, j \in 1..Len(d) : i # j => d[i][1] # d[j][1]}

InitCombine ==
    /\ pc = "idle"
    /\ db_exists = FALSE
    /\ table = {}
    /\ n_folders = 0
    /\ pending = <<>>
    /\ csv = {}
    /\ audit = <<>>
    /\ exit_status = "none"
    /\ GuiInit
    /\ TabsIdle
    /\ JobIdle
    /\ combine_out = NoCombineOut
    /\ \E image_list \in ImageLists, base_param_dict \in BaseParamDicts, job_param_dict \in JobParamDicts :
          combine_in = [image_list |-> image_list,
                        base_param_dict |-> base_param_dict,
                        job_param_dict |-> job_param_dict]

call_combine_lists ==
    /\ combine_out.status = "none"
    /\ IF combine_lists_raises(combine_in.image_list, combine_in.job_param_dict)
       THEN combine_out' = [status |-> "KeyError", rows |-> <<>>]
       ELSE combine_out' = [status |-> "returned",
                            rows |-> combine_lists(combine_in.image_list,
                                                   combine_in.base_param_dict,
                                                   combine_in.job_param_dict)]
    /\ UNCHANGED <<dbvars, guivars, combine_in, tabvars, jobvars>>

NextCombine == call_combine_lists

SpecCombine == InitCombine /\ [][NextCombine]_vars

\* ------------------------------------------------------ main window ----
MaxTabs == 3
MaxRenames == 1

\* database names the config file, the file dialog or the input box can give
DbNames == {"tooth_database.db", "second.db"}

\* chosen_param and row_id of a view tab's name
ViewParams == {"iter", "None"}
ViewRowIds == {"1"}

ImageDropTab(path) ==
    [tab_name |-> <<"ImageDrop">>, widget |-> "ImageDropWidgetSimple", db_path |-> path]

StackViewTab(path, chosen_param, row_id) ==
    [tab_name |-> <<chosen_param, "id", row_id>>, widget |-> "StackView", db_path |-> path]

\* 'ImageDrop' in tab_name
is_imagedrop_name(tab_name) == "ImageDrop" \in Range(tab_name)

rename_tabs_only(tw) ==
    [k \in 1..Len(tw) |->
        IF is_imagedrop_name(tw[k].tab_name)
        THEN tw[k]
        ELSE [tw[k] EXCEPT !.tab_name = @ \o <<"database changed">>]]

\* close_tabs_or_alter_name: tabs named ImageDrop are removed, the others
\* get the 'database changed' suffix
close_tabs_or_alter_name(tw) ==
    LET kept == SelectSeq(tw, LAMBDA t : ~is_imagedrop_name(t.tab_name))
    IN [k \in 1..Len(kept) |->
           [kept[k] EXCEPT !.tab_name = @ \o <<"database changed">>]]

open_new_imagedrop_tab(tw, path) ==
    close_tabs_or_alter_name(tw) \o <<ImageDropTab(path)>>

\* the suffix can still be appended to every view tab
RenamesLeft(tw) ==
    \A k \in 1..Len(tw) : Len(tw[k].tab_name) < 3 + MaxRenames

\* update_database_name_at_parent: the main window's db_path is set; a new
\* ImageDrop tab is opened only when the file exists
update_database_name_at_parent(db_name, files) ==
    /\ db_path' = db_name
    /\ IF db_name \in files
       THEN /\ tab_widget' = open_new_imagedrop_tab(tab_widget, db_name)
            /\ last_call' = "open_new_imagedrop_tab"
       ELSE /\ tab_widget' = tab_widget
            /\ last_call' = "database_not_found_warning"

select_existing_database ==
    /\ RenamesLeft(tab_widget)
    /\ \E base_name \in DbNames :
          update_database_name_at_parent(base_name, db_files)
    /\ UNCHANGED db_files
    /\ UNCHANGED <<dbvars, guivars, combinevars, jobvars>>

\* check_db_inputs with valid inputs: construct_database creates the file
\* and either returns, and the new database becomes the current one, or
\* ends with an exception; for an existing file it ends the program
check_db_inputs ==
    /\ RenamesLeft(tab_widget)
    /\ \E name \in DbNames \ db_files :
          /\ db_files' = db_files \cup {name}
          /\ \/ update_database_name_at_parent(name, db_files')
             \/ /\ last_call' = "construct_database raised"
                /\ UNCHANGED <<tab_widget, db_path>>
    /\ UNCHANGED <<dbvars, guivars, combinevars, jobvars>>

\* open_new_view_tab: a StackView of the current database is added
open_new_view_tab ==
    /\ db_path \in db_files
    /\ Len(tab_widget) < MaxTabs
    /\ \E chosen_param \in ViewParams, row_id \in ViewRowIds :
          tab_widget' = Append(tab_widget, StackViewTab(db_path, chosen_param, row_id))
    /\ last_call' = "open_new_view_tab"
    /\ UNCHANGED <<db_path, db_files>>
    /\ UNCHANGED <<dbvars, guivars, combinevars, jobvars>>

\* close_tab(index) from the Close Tabs menu
close_tab ==
    /\ \E index \in 0..(Len(tab_widget) - 1) :
          tab_widget' = SubSeq(tab_widget, 1, index) \o
                        SubSeq(tab_widget, index + 2, Len(tab_widget))
    /\ last_call' = "close_tab"
    /\ UNCHANGED <<db_path, db_files>>
    /\ UNCHANGED <<dbvars, guivars, combinevars, jobvars>>

\* the main window after MainWindow.__init__: DatabaseMenu has read the
\* configured database name and passed it to update_database_name_at_parent
InitTabs ==
    /\ pc = "idle"
    /\ db_exists = FALSE
    /\ table = {}
    /\ n_folders = 0
    /\ pending = <<>>
    /\ csv = {}
    /\ audit = <<>>
    /\ exit_status = "none"
    /\ GuiInit
    /\ CombineIdle
    /\ JobIdle
    /\ db_files \in SUBSET DbNames
    /\ db_path \in DbNames
    /\ IF db_path \in db_files
       THEN /\ tab_widget = open_new_imagedrop_tab(<<>>, db_path)
            /\ last_call = "open_new_imagedrop_tab"
       ELSE /\ tab_widget = <<>>
            /\ last_call = "database_not_found_warning"

NextTabs ==
    \/ select_existing_database
    \/ check_db_inputs
    \/ open_new_view_tab
    \/ close_tab

SpecTabs == InitTabs /\ [][NextTabs]_vars

\* --------------------------------------------------- read_job_param ----
MaxVariables == 2
MaxSections == 3

\* step numbers a scanned variable can have in a header line
StepIndices == {0, 1, 11}

\* names of the scanned variables, in the order of their par lines
JobParNames == <<"uMgr", "Di", "Da">>

\* decimal digits of a step number, as str() writes them
RECURSIVE digits(_)
digits(n) == IF n < 10 THEN <<n>> ELSE digits(n \div 10) \o <<n % 10>>

\* idx_nums of a header line 'i:N --- a b ': the text after '--- ' with the
\* spaces removed, as a sequence of characters
RECURSIVE index_string(_)
index_string(idx) ==
    IF idx = <<>> THEN <<>> ELSE digits(Head(idx)) \o index_string(Tail(idx))

header_line(idx) == [kind |-> "header", idx |-> idx, par |-> NoneStr, val |-> None]
par_line(par, val) == [kind |-> "par", idx |-> <<>>, par |-> par, val |-> val]
blank_line == [kind |-> "blank", idx |-> <<>>, par |-> NoneStr, val |-> None]

\* one section of the file: the header, one par line per scanned variable
\* with the value of that step, and an empty line
section_lines(idx) ==
    <<header_line(idx)>> \o [k \in 1..Len(idx) |-> par_line(JobParNames[k], idx[k])] \o
    <<blank_line>>

RECURSIVE file_lines(_)
file_lines(idxs) ==
    IF idxs = <<>> THEN <<>> ELSE section_lines(Head(idxs)) \o file_lines(Tail(idxs))

\* sequences of k pairwise different elements of S
RECURSIVE InjectiveSeqs(_, _)
InjectiveSeqs(S, k) ==
    IF k = 0
    THEN {<<>>}
    ELSE UNION {{Append(q, x) : x \in S \ Range(q)} : q \in InjectiveSeqs(S, k - 1)}

\* the files of a scan of n variables with m sections: pairwise different
\* step tuples, the first one the all-zero tuple
JobFiles(n, m) ==
    LET zeros == [k \in 1..n |-> 0]
    IN {file_lines(<<zeros>> \o rest) :
           rest \in InjectiveSeqs([1..n -> StepIndices] \ {zeros}, m - 1)}

dict_update(d, key, value) ==
    [x \in DOMAIN d \cup {key} |-> IF x = key THEN value ELSE d[x]]

\* the loop of read_job_param from line i on; st holds the local variables
RECURSIVE read_lines(_, _, _)
read_lines(lines, i, st) ==
    IF i >= Len(lines)
    THEN [status |-> "returned",
          dict |-> dict_update(st.job_dict, st.idx_nums, st.param_dict)]
    ELSE LET line == lines[i + 1] IN
         IF line.kind = "blank"
         THEN read_lines(lines, i + 1, st)
         ELSE IF i % (st.n_variables + 2) = 0
         THEN IF line.kind # "header"
              THEN [status |-> "IndexError", dict |-> <<>>]
              ELSE LET idx_nums == index_string(line.idx)
                   IN read_lines(lines, i + 1,
                         [n_variables |-> IF i = 0 THEN Len(idx_nums) ELSE st.n_variables,
                          param_dict |-> <<>>,
                          idx_nums |-> idx_nums,
                          job_dict |-> IF i # 0
                                       THEN dict_update(st.job_dict, st.idx_nums, st.param_dict)
                                       ELSE st.job_dict])
         ELSE IF line.kind # "par"
              THEN [status |-> "IndexError", dict |-> <<>>]
              ELSE read_lines(lines, i + 1,
                      [st EXCEPT !.param_dict = dict_update(@, line.par, line.val)])

read_job_param_of(lines) ==
    read_lines(lines, 0,
               [n_variables |-> 0, param_dict |-> <<>>, idx_nums |-> <<>>, job_dict |-> <<>>])

read_job_param ==
    /\ job_dict.status = "none"
    /\ job_dict' = read_job_param_of(job_file)
    /\ UNCHANGED job_file
    /\ UNCHANGED <<dbvars, guivars, combinevars, tabvars>>

InitJob ==
    /\ pc = "idle"
    /\ db_exists = FALSE
    /\ table = {}
    /\ n_folders = 0
    /\ pending = <<>>
    /\ csv = {}
    /\ audit = <<>>
    /\ exit_status = "none"
    /\ GuiInit
    /\ CombineIdle
    /\ TabsIdle
    /\ \E n \in 1..MaxVariables, m \in 1..MaxSections : job_file \in JobFiles(n, m)
    /\ job_dict = NoJobDict

NextJob == read_job_param

SpecJob == InitJob /\ [][NextJob]_vars

\* ------------------------------------------------------ properties ----
\* rows r and s are equal on every column other than id and path
EqualExceptIdPath(r, s) == \A i \in 3..NCols : r[i] = s[i]

Returned == pc = "idle" /\ exit_status = "returned"

\* C1: after remove_duplicate_images, of every set of rows of the pre-call
\* table that are equal on all columns other than id and path exactly one
\* row remains, the one with the smallest id; nothing else changes
C1_OneRowPerGroupMinId ==
    [][pc = "remove_duplicate_images" =>
         /\ table' \subseteq table
         /\ \A r \in table :
               LET group == {s \in table : EqualExceptIdPath(r, s)}
                   kept == {s \in group : \A x \in group : s[1] <= x[1]}
               IN table' \cap group = kept /\ Cardinality(kept) = 1]_vars

\* construct_database has returned and its duplicate removal deleted rows
C1_Witness == Returned /\ Cardinality(table) < Cardinality(csv)

\* C2: the audit CSV has exactly one 'removed' line (min_id, id, path) per
\* deleted row and none for a row that stays; each group that loses a row
\* has exactly one 'preserved' line with the kept row's id, before the
\* group's 'removed' lines
C2_AuditMatchesDeletion ==
    [][pc = "remove_duplicate_images" =>
         LET deleted == table \ table'
             lines == audit'
             idxs == 1..Len(lines)
             kept_id(r) == CHOOSE m \in Ids(table') :
                              \E s \in table' : s[1] = m /\ EqualExceptIdPath(r, s)
         IN /\ \A r \in deleted :
                  /\ Cardinality({k \in idxs : lines[k][4] = "removed" /\ lines[k][2] = r[1]}) = 1
                  /\ \E k \in idxs : lines[k] = <<kept_id(r), r[1], r[2], "removed">>
                  /\ Cardinality({k \in idxs : lines[k][4] = "preserved" /\ lines[k][2] = kept_id(r)}) = 1
                  /\ \A k, p \in idxs :
                        (/\ lines[k][4] = "removed" /\ lines[k][1] = kept_id(r)
                         /\ lines[p][4] = "preserved" /\ lines[p][2] = kept_id(r)) => p < k
            /\ \A k \in idxs :
                  /\ lines[k][4] \in {"removed", "preserved"}
                  /\ lines[k][4] = "removed" => lines[k][2] \in Ids(deleted)
                  /\ lines[k][4] = "preserved" =>
                        /\ lines[k][1] = lines[k][2]
                        /\ \E r \in deleted : kept_id(r) = lines[k][2]]_vars

\* the audit CSV of a returned construct_database has a group that lost two rows
C2_Witness ==
    /\ Returned
    /\ \E k, p \in 1..Len(audit) :
          /\ k # p
          /\ audit[k][4] = "removed"
          /\ audit[p][4] = "removed"
          /\ audit[k][1] = audit[p][1]

\* C5: no two rows of the images table share a path or an id, and an insert
\* that repeats an existing path is rejected and adds no row
C5_UniquePathAndId ==
    /\ [](\A r, s \in table : (r[1] = s[1] \/ r[2] = s[2]) => r = s)
    /\ [][(/\ pc = "insert_data_to_table"
           /\ pending # <<>>
           /\ \E r \in table : r[2] = Head(pending)[1])
          => (table' = table /\ pc' = "IntegrityError")]_vars

\* an insert was rejected while the table held rows
C5_Witness ==
    /\ pc = "IntegrityError"
    /\ \E r \in table : r[2] = Head(pending)[1]

\* C6: when construct_database returns, the rows of the CSV file are the
\* rows of the table
C6_CsvEqualsTable == Returned => csv = table

\* C8: construct_database on a name whose database file exists stops with
\* an error, creates no table, inserts no row and leaves the file unchanged
C8_ExistingDatabaseUntouched ==
    [][(pc = "idle" /\ db_exists) =>
          /\ exit_status' = "sys.exit"
          /\ pc' = "idle"
          /\ db_exists'
          /\ table' = table
          /\ csv' = csv
          /\ audit' = audit]_vars

\* a second construct_database was stopped and the database still has rows
C8_Witness == exit_status = "sys.exit" /\ table # {}

\* C4: every row of combine_lists is the image path, then one value per base
\* parameter in the base file's order: the job-file override of the image's
\* index key if the job file has one for the parameter, else the base value
C4_OverrideElseBase ==
    combine_out.status = "returned" =>
        LET image_list == combine_in.image_list
            base == combine_in.base_param_dict
            job == combine_in.job_param_dict
        IN /\ Len(combine_out.rows) = Len(image_list)
           /\ \A k \in 1..Len(image_list) :
                 LET row == combine_out.rows[k]
                     section == job[image_list[k][2]]
                 IN /\ Len(row) = Len(base) + 2
                    /\ row[1] = image_list[k][1]
                    /\ \A j \in 1..Len(base) :
                          row[j + 1] = IF base[j][1] \in DOMAIN section
                                       THEN section[base[j][1]]
                                       ELSE base[j][2]

\* combine_lists returned a row with an override that differs from the base
\* value and a parameter taken from the base file
C4_Witness ==
    /\ combine_out.status = "returned"
    /\ \E k \in 1..Len(combine_in.image_list) :
          LET section == combine_in.job_param_dict[combine_in.image_list[k][2]]
              base == combine_in.base_param_dict
          IN /\ \E j \in 1..Len(base) :
                   base[j][1] \in DOMAIN section /\ section[base[j][1]] # base[j][2]
             /\ \E j \in 1..Len(base) : base[j][1] \notin DOMAIN section

\* C3: find_rows_differing_by_param returns exactly the rows that differ
\* from the base row in the chosen column and equal it in every other
\* column except id and path; the base row is not among them
C3_NeighborsExact ==
    ret.op = "find_rows_differing_by_param" =>
        LET base_row == CHOOSE r \in table : r[1] = ret.row_id
            chosen == CHOOSE i \in 1..NCols : all_column_names[i] = ret.param
        IN /\ ret.rows = {r \in table :
                             /\ r[chosen] # base_row[chosen]
                             /\ \A i \in 3..NCols : i # chosen => r[i] = base_row[i]}
           /\ base_row \notin ret.rows

\* a query found a neighbor and left out a row that is not the base row
C3_Witness ==
    /\ ret.op = "find_rows_differing_by_param"
    /\ ret.rows # {}
    /\ \E r \in table : r[1] # ret.row_id /\ r \notin ret.rows

\* the parameter columns of the table from Egr through uMgr
SimulationParamColumns ==
    {all_column_names[i] : i \in ColIdx("Egr")..ColIdx("uMgr")}

\* C7: export_row_to_file writes one 'name==value' line for model,
\* viewthresh, viewmode, iter and every parameter column from Egr through
\* uMgr, with the value stored in the row
C7_ExportHasEveryParameter ==
    ret.op = "export_row_to_file" =>
        LET row == CHOOSE r \in table : r[1] = ret.row_id
        IN \A name \in {"model", "viewthresh", "viewmode", "iter"} \cup SimulationParamColumns :
              /\ Cardinality({k \in 1..Len(ret.lines) : ret.lines[k][1] = name}) = 1
              /\ \E k \in 1..Len(ret.lines) :
                    ret.lines[k] = <<name, row[ColIdx(name)]>>

\* C9: clicking a shown radio button closes the window and returns that
\* parameter's name; None is returned only when no button is shown or the
\* window is closed without a selection
C9_ClickReturnsParameter ==
    clicked # None =>
        /\ dialog = "none"
        /\ picked = param_name_dict_keys[clicked + 1]
        /\ picked # NoneStr

\* C10: in a database whose images table has rows, save_input_value with the
\* id of an existing row stores it and closes the dialog, and with a non-zero
\* id that is not in the table it stores nothing and the dialog stays open
C10_ExistingIdAccepted ==
    (/\ db_exists
     /\ table # {}
     /\ printed[1] \in {"given", "larger than max row", "not found"}) =>
        LET value == printed[2]
        IN IF \E r \in table : r[1] = value
           THEN row_id_ref = value /\ dialog = "none"
           ELSE row_id_ref = None /\ dialog = "ask_row_id"

\* C14: in every 'preserved' line of the audit CSV the path column is the
\* path of the row whose id is in the id column, the kept row of the group
C14_PreservedLineHasKeptRowPath ==
    pc = "idle" =>
        \A k \in 1..Len(audit) :
            audit[k][4] = "preserved" =>
                \E r \in table : r[1] = audit[k][2] /\ r[2] = audit[k][3]

\* C15: with at least one row in the table, save_input_value with input 0
\* ends with the id of an existing row stored and the dialog closed
C15_RandomChoiceEndsWithExistingId ==
    (table # {} /\ printed[1] \in {"randomized", "ValueError"}) =>
        /\ dialog = "none"
        /\ \E r \in table : r[1] = row_id_ref

\* C16: with input 0 the stored id is the id of an existing row in
\* 1..max_row, max_row being what check_database_max_row returns, and every
\* existing row with an id in that range can be the one selected
C16_RandomChoiceCoversRange ==
    /\ printed[1] = "randomized" =>
          /\ \E r \in table : r[1] = row_id_ref
          /\ row_id_ref \in 1..check_database_max_row
    /\ dialog = "random_loop" =>
          \A r \in table :
              r[1] \in 1..check_database_max_row =>
                  ENABLED (save_input_value_random /\ row_id_ref' = r[1])

\* C12: stack_images returns the base row and every neighbor row exactly
\* once, in non-decreasing order of the chosen parameter, and the k-th
\* image, id and value always come from one database row
C12_StackSortedAndAligned ==
    ret.op = "stack_images" =>
        LET arr == ret.lines[1]
            img_ids == ret.lines[2]
            chosen_param_values == ret.lines[3]
            expected == {fetch_row(table, ret.row_id)} \cup ret.rows
        IN /\ Len(arr) = Cardinality(expected)
           /\ Len(img_ids) = Len(arr)
           /\ Len(chosen_param_values) = Len(arr)
           /\ \A r \in expected :
                 Cardinality({k \in 1..Len(img_ids) : img_ids[k] = r[1]}) = 1
           /\ \A k \in 1..(Len(arr) - 1) :
                 chosen_param_values[k] <= chosen_param_values[k + 1]
           /\ \A k \in 1..Len(arr) :
                 \E r \in expected : /\ r[1] = img_ids[k]
                                     /\ r[2] = arr[k]
                                     /\ r[ColIdx(ret.param)] = chosen_param_values[k]

C12_Witness ==
    /\ ret.op = "stack_images"
    /\ Len(ret.lines[2]) >= 2
    /\ ret.lines[2][1] # ret.row_id

\* C13: process_image emits new_view_tab_signal exactly when a row with the
\* looked-up path exists, and the emitted id is that row's id
C13_SignalIffRowWithPath ==
    ret.op = "process_image" =>
        LET looked_up == ret.lines[1]
        IN /\ (printed[1] = "new_view_tab_signal") <=> (\E r \in table : r[2] = looked_up)
           /\ printed[1] = "new_view_tab_signal" =>
                 \E r \in table : r[2] = looked_up /\ r[1] = printed[2]
           /\ printed[1] # "new_view_tab_signal" => printed = <<"not in database", None>>

C13_Witness ==
    /\ ret.op = "process_image"
    /\ printed[1] = "new_view_tab_signal"
    /\ printed[2] # SetMin(Ids(table))

ImageDropTabs == {k \in 1..Len(tab_widget) : tab_widget[k].widget = "ImageDropWidgetSimple"}

\* C11: the tab widget never holds more than one ImageDrop tab, and right
\* after open_new_imagedrop_tab it holds exactly one, created for the main
\* window's current database path
C11_AtMostOneImageDropTab ==
    /\ Cardinality(ImageDropTabs) <= 1
    /\ last_call = "open_new_imagedrop_tab" =>
          /\ Cardinality(ImageDropTabs) = 1
          /\ \A k \in ImageDropTabs : tab_widget[k].db_path = db_path

\* a second database was opened while an ImageDrop tab and a view tab of
\* the first were there
C11_Witness ==
    /\ last_call = "open_new_imagedrop_tab"
    /\ Len(tab_widget) >= 2
    /\ \E k \in 1..Len(tab_widget) :
          /\ tab_widget[k].widget = "StackView"
          /\ tab_widget[k].db_path # db_path
          /\ Len(tab_widget[k].tab_name) > 3

\* the header lines of the file and the par/val pairs listed after header
\* line h, up to the next header line
HeaderLines == {h \in 1..Len(job_file) : job_file[h].kind = "header"}

SectionPairs(h) ==
    {<<job_file[k].par, job_file[k].val>> :
        k \in {x \in (h + 1)..Len(job_file) :
                  /\ job_file[x].kind = "par"
                  /\ \A y \in (h + 1)..x : job_file[y].kind # "header"}}

DictPairs(d) == {<<k, d[k]>> : k \in DOMAIN d}

\* C17: read_job_param returns one entry per section, mapping the section's
\* index string to exactly the par/val pairs listed in that section, the
\* last section included
C17_OneEntryPerSection ==
    job_dict.status # "none" =>
        /\ job_dict.status = "returned"
        /\ Cardinality(DOMAIN job_dict.dict) = Cardinality(HeaderLines)
        /\ \A h \in HeaderLines :
              /\ index_string(job_file[h].idx) \in DOMAIN job_dict.dict
              /\ DictPairs(job_dict.dict[index_string(job_file[h].idx)]) = SectionPairs(h)

\* C18: sections with different index tuples get different keys in the
\* returned dictionary
C18_DifferentTuplesDifferentKeys ==
    job_dict.status = "returned" =>
        \A g, h \in HeaderLines :
            job_file[g].idx # job_file[h].idx =>
                index_string(job_file[g].idx) # index_string(job_file[h].idx)

====
